---- MODULE Spec2Model ----
(***************************************************************************)
(* Model of the arXiv metadata ingestion pipeline of daily_arxiv.py:       *)
(* normalize_arxiv_id, load_existing_metadata_files, save_metadata_files,  *)
(* the paging loop of get_daily_papers and the topic loop of main.         *)
(*                                                                         *)
(* Strings are sequences of one-character strings, so that the substring   *)
(* tests, splits and truncations of the code are computed, not assumed.    *)
(***************************************************************************)
EXTENDS Integers, Sequences, FiniteSets, TLC

(***************************************************************************)
(* Bounds of the model.                                                    *)
(***************************************************************************)
\* number of topics of the category list (get_all_categories has 20)
NumTopics == 2
\* longest page (number of feed entries) the API returns
MaxPageLen == 2
\* number of pages of the API's corpus that can hold real entries
CorpusPages == 2
\* longest batch handed to save_metadata_files in SaveSpec
MaxBatch == 2
\* most pieces an identifier string of NormSpec is built from
MaxPieces == 3
\* largest version number of NormSpec
MaxVersion == 10
\* most lines of the current period's file in LoadSpec
MaxLines == 2

(***************************************************************************)
(* Program constants.                                                      *)
(***************************************************************************)
batch_size == 100
max_empty_pages == 3
max_retries == 5
\* the default of --max-results, which date-range mode turns into "no limit"
default_max_results == 100
\* float('inf') of target_results
Inf == 1000000

(***************************************************************************)
(* Strings.                                                                *)
(***************************************************************************)
S_abs == <<"/", "a", "b", "s", "/">>
S_domain == <<"a", "r", "x", "i", "v", ".", "o", "r", "g">>
S_slash == <<"/">>
S_v == <<"v">>
S_http == <<"h", ":", "/", "/">>

\* s[i..] starts with sub
StartsAt(s, sub, i) ==
    /\ i + Len(sub) - 1 <= Len(s)
    /\ \A k \in 1..Len(sub) : s[i + k - 1] = sub[k]

\* Python's s.find(sub) + 1: the first position where sub occurs, 0 if none
Find(s, sub) ==
    LET hits == {i \in 1..Len(s) : StartsAt(s, sub, i)}
    IN  IF hits = {} THEN 0 ELSE CHOOSE i \in hits : \A j \in hits : i <= j

\* Python's `sub in s`
Contains(s, sub) == Find(s, sub) # 0

\* Python's s.split(sep)[-1]: split left to right on non-overlapping
\* occurrences of sep and keep the last piece
RECURSIVE SplitLast(_, _)
SplitLast(s, sep) ==
    LET i == Find(s, sep)
    IN  IF i = 0 THEN s
        ELSE SplitLast(SubSeq(s, i + Len(sep), Len(s)), sep)

\* the cut at the last 'v' instead of the first
CutAtV_Last(s) ==
    LET hits == {i \in 1..Len(s) : s[i] = "v"}
    IN  IF hits = {} THEN s
        ELSE SubSeq(s, 1, (CHOOSE i \in hits : \A j \in hits : j <= i) - 1)

\* s[:s.find('v')] when 'v' occurs, s otherwise
CutAtV(s) ==
    LET ver_pos == Find(s, S_v)
    IN  IF ver_pos # 0 THEN SubSeq(s, 1, ver_pos - 1) ELSE s

\* the last path segment taken whether or not the string names the domain
normalize_AlwaysSplit(arxiv_id) ==
    IF arxiv_id = <<>> THEN <<>>
    ELSE LET a == IF Contains(arxiv_id, S_abs) THEN SplitLast(arxiv_id, S_abs)
                  ELSE SplitLast(arxiv_id, S_slash)
         IN  CutAtV(a)

\* normalize_arxiv_id
normalize_arxiv_id(arxiv_id) ==
    IF arxiv_id = <<>> THEN <<>>
    ELSE LET a == IF Contains(arxiv_id, S_abs) THEN SplitLast(arxiv_id, S_abs)
                  ELSE IF Contains(arxiv_id, S_domain) THEN SplitLast(arxiv_id, S_slash)
                  ELSE arxiv_id
         IN  CutAtV(a)

\* the paper_id get_daily_papers derives from an entry's <id> text
PaperIdOf(entry_id) ==
    CutAtV(IF Contains(entry_id, S_abs) THEN SplitLast(entry_id, S_abs) ELSE entry_id)

(***************************************************************************)
(* The identifier strings of the model, and the two derivations tabulated  *)
(* over them.                                                              *)
(***************************************************************************)
Id1 == <<"1">>
Id2 == <<"2">>
Key9 == <<"9">>
Url1 == S_http \o S_domain \o S_abs \o Id1 \o <<"v", "1">>
Bare1v2 == Id1 \o <<"v", "2">>
Url2 == S_http \o S_domain \o S_abs \o Id2 \o <<"v", "1">>
\* the <id> texts the API returns
EntryIds == {Url1, Bare1v2, Url2}
IdStrings == EntryIds \cup {<<>>, Id1, Id2, Key9}

Canon == [s \in IdStrings |-> normalize_arxiv_id(s)]
PaperId == [s \in IdStrings |-> PaperIdOf(s)]

(***************************************************************************)
(* Store files.  A file is its existence, its lines and whether its last   *)
(* byte is a newline.  A line is a JSON object with an `id` ("json"), a    *)
(* JSON object without one ("noid"), text json.loads rejects ("bad"), a     *)
(* JSON value that is a number, null or a boolean ("nonobj"), or nothing   *)
(* but white space ("blank").  A file name is the pattern without a        *)
(* period ("undated") or with the period of last month, of this month or   *)
(* of next month.                                                          *)
(***************************************************************************)
Periods == [past |-> 202507, cur |-> 202508, future |-> 202509]
current_year_month == Periods.cur
\* the files of the pipeline's store, and those of LoadSpec's
FileNames == {"undated", "past", "cur"}
LoadNames == FileNames \cup {"future"}
DatedPeriod(name) == Periods[name]

NoFile == [exists |-> FALSE, lines |-> <<>>, nl |-> TRUE]
JsonLine(id, entry_id) == [kind |-> "json", id |-> id, entry_id |-> entry_id]
NoIdLine(entry_id) == [kind |-> "noid", id |-> <<>>, entry_id |-> entry_id]
BadLine == [kind |-> "bad", id |-> <<>>, entry_id |-> <<>>]
NonObjLine == [kind |-> "nonobj", id |-> <<>>, entry_id |-> <<>>]

\* the bytes of a file: every line followed by a newline, the last one
\* only when the file ends with one; an absent file has none
RECURSIVE Bytes(_)
Bytes(f) ==
    IF f.lines = <<>> THEN <<>>
    ELSE IF Len(f.lines) = 1
         THEN IF f.nl THEN <<f.lines[1], "NL">> ELSE <<f.lines[1]>>
         ELSE <<f.lines[1], "NL">> \o Bytes([f EXCEPT !.lines = Tail(f.lines)])

\* lines 416-439: the lines of a file in order.  JSONDecodeError skips the
\* line; on a number, null or boolean `'id' in data` raises TypeError, which
\* the handler of line 438 catches outside the loop: the file's scan ends
RECURSIVE ScanLines(_, _)
ScanLines(lines, ids) ==
    IF lines = <<>> THEN ids
    ELSE LET l == Head(lines)
         IN  IF l.kind = "nonobj" THEN ids
             ELSE IF l.kind = "json" THEN ScanLines(Tail(lines), ids \cup {Canon[l.id]})
             ELSE ScanLines(Tail(lines), ids)

\* canonical IDs of the record lines of a file, as the Loader reads them
FileIds(f) == ScanLines(f.lines, {})

\* the period test with < for <=
Scanned_Lt(name, skip_no_date_files) ==
    IF name = "undated" THEN ~skip_no_date_files
    ELSE DatedPeriod(name) < current_year_month

\* the files load_existing_metadata_files opens
Scanned(name, skip_no_date_files) ==
    IF name = "undated" THEN ~skip_no_date_files
    ELSE DatedPeriod(name) <= current_year_month

\* the loop of line 394 over the names os.listdir gave, in that order:
\* the IDs gathered and the files opened
RECURSIVE LoadListing(_, _, _, _)
LoadListing(st, listing, skip_no_date_files, acc) ==
    IF listing = <<>> THEN acc
    ELSE LET name == Head(listing)
             next == IF st[name].exists /\ Scanned(name, skip_no_date_files)
                     THEN [ids |-> ScanLines(st[name].lines, acc.ids),
                           opened |-> acc.opened \cup {name}]
                     ELSE acc
         IN  LoadListing(st, Tail(listing), skip_no_date_files, next)

\* a Loader that finds nothing
load_Nothing(st, skip_no_date_files) == {}

\* one order in which os.listdir may give the pipeline's three files
StoreListing == <<"cur", "past", "undated">>

\* load_existing_metadata_files: existing_data['arxiv-metadata-oai-snapshot']
load_existing_metadata_files(st, skip_no_date_files) ==
    LoadListing(st, StoreListing, skip_no_date_files, [ids |-> {}, opened |-> {}]).ids

(***************************************************************************)
(* save_metadata_files.  A batch is new_dict in insertion order: items     *)
(* [key, hasId, id, entry_id].  io says where the append fails, if it      *)
(* does: at opening the file, or at the at-th f.write (0: nowhere).        *)
(***************************************************************************)
NoFail == [open |-> FALSE, at |-> 0]

\* paper_data.get('id', paper_id), normalized
CleanId(item) == Canon[IF item.hasId THEN item.id ELSE item.key]

\* json.dumps(paper_data) as a line of the file
LineOf(item) ==
    IF item.hasId THEN JsonLine(item.id, item.entry_id) ELSE NoIdLine(item.entry_id)

\* a newline written without looking at the last byte
BlankLine == [kind |-> "blank", id |-> <<>>, entry_id |-> <<>>]
NewlineFix_NoCheck(f) ==
    IF f.exists /\ f.lines # <<>>
    THEN IF f.nl THEN [f EXCEPT !.lines = Append(@, BlankLine)] ELSE [f EXCEPT !.nl = TRUE]
    ELSE f

\* lines 486-492: a non-empty file that does not end with a newline gets one
NewlineFix(f) ==
    IF f.exists /\ f.lines # <<>> /\ ~f.nl THEN [f EXCEPT !.nl = TRUE] ELSE f

\* the loop body without the add of line 508
SaveItem_KeepsK(acc, item, io) ==
    LET clean_paper_id == CleanId(item)
    IN  IF acc.raised THEN acc
        ELSE IF clean_paper_id \notin acc.K
             THEN IF io.at = acc.new_entries + 1
                  THEN [acc EXCEPT !.raised = TRUE]
                  ELSE [acc EXCEPT !.file.lines = Append(@, LineOf(item)),
                                   !.new_entries = @ + 1]
             ELSE acc

\* the loop body writing over the file instead of at its end
SaveItem_Truncates(acc, item, io) ==
    LET clean_paper_id == CleanId(item)
    IN  IF acc.raised THEN acc
        ELSE IF clean_paper_id \notin acc.K
             THEN IF io.at = acc.new_entries + 1
                  THEN [acc EXCEPT !.raised = TRUE]
                  ELSE [acc EXCEPT !.file.lines = <<LineOf(item)>>,
                                   !.new_entries = @ + 1,
                                   !.K = @ \cup {clean_paper_id}]
             ELSE acc

\* the loop body with a failed write passed over
SaveItem_GoesOn(acc, item, io) ==
    LET clean_paper_id == CleanId(item)
    IN  IF clean_paper_id \notin acc.K
        THEN IF io.at = acc.new_entries + 1
             THEN acc
             ELSE [acc EXCEPT !.file.lines = Append(@, LineOf(item)),
                              !.new_entries = @ + 1,
                              !.K = @ \cup {clean_paper_id}]
        ELSE acc

\* the loop body without the test of line 503
SaveItem_NoCheck(acc, item, io) ==
    LET clean_paper_id == CleanId(item)
    IN  IF acc.raised THEN acc
        ELSE IF io.at = acc.new_entries + 1
             THEN [acc EXCEPT !.raised = TRUE]
             ELSE [acc EXCEPT !.file.lines = Append(@, LineOf(item)),
                              !.new_entries = @ + 1,
                              !.K = @ \cup {clean_paper_id}]

\* the body of the loop of lines 495-512 for one item
SaveItem(acc, item, io) ==
    LET clean_paper_id == CleanId(item)
    IN  IF acc.raised THEN acc
        ELSE IF clean_paper_id \notin acc.K
             THEN IF io.at = acc.new_entries + 1
                  THEN [acc EXCEPT !.raised = TRUE]
                  ELSE [acc EXCEPT !.file.lines = Append(@, LineOf(item)),
                                   !.new_entries = @ + 1,
                                   !.K = @ \cup {clean_paper_id}]
             ELSE acc

RECURSIVE SaveLoop(_, _, _, _)
SaveLoop(acc, batch, i, io) ==
    IF i > Len(batch) THEN acc
    ELSE SaveLoop(SaveItem(acc, batch[i], io), batch, i + 1, io)

\* save_metadata_files(new_dict, existing_data): the file and the Known-ID
\* Set afterwards, the number of appended lines, and whether it raised
save_metadata_files(batch, K, f, io) ==
    LET fixed == NewlineFix(f)
    IN  IF io.open
        THEN [file |-> fixed, K |-> K, new_entries |-> 0, raised |-> TRUE]
        ELSE SaveLoop([file |-> [fixed EXCEPT !.exists = TRUE], K |-> K,
                       new_entries |-> 0, raised |-> FALSE], batch, 1, io)

\* the tuple save_metadata_files returns
SaveReturn(res) == <<res.new_entries, Cardinality(res.K), res.K>>

(***************************************************************************)
(* The external API.  An entry of a page is a paper entry with the text    *)
(* of its <id>, the search-info entry ("meta"), or an entry without <id>   *)
(* or <title> ("noid").                                                    *)
(***************************************************************************)
Entries ==
    {[kind |-> "paper", id |-> e] : e \in EntryIds}
        \cup {[kind |-> "meta", id |-> <<>>], [kind |-> "noid", id |-> <<>>]}

RECURSIVE SeqsUpTo(_, _)
SeqsUpTo(S, n) ==
    IF n = 0 THEN {<<>>}
    ELSE LET shorter == SeqsUpTo(S, n - 1)
         IN  shorter \cup {Append(q, x) : q \in {r \in shorter : Len(r) = n - 1}, x \in S}

Pages == SeqsUpTo(Entries, MaxPageLen)
IsReal(entry) == entry.kind # "meta"
HasReal(page) == \E i \in 1..Len(page) : IsReal(page[i])
\* offsets beyond the corpus hold no real entry
PagesAt(offset) ==
    IF offset < CorpusPages * batch_size THEN Pages
    ELSE {pg \in Pages : ~HasReal(pg)}

(***************************************************************************)
(* The entry loop of get_daily_papers, lines 200-306.                      *)
(***************************************************************************)
Keys(fc) == {fc[i].id : i \in 1..Len(fc)}

\* the entry loop without the test of line 227
ParseEntry_NoDupCheck(acc, entry) ==
    IF entry.kind = "meta" THEN acc
    ELSE LET counted == [acc EXCEPT !.entry_count = @ + 1]
         IN  IF entry.kind = "noid" THEN counted
             ELSE [counted EXCEPT !.full_content =
                       Append(@, [id |-> PaperId[entry.id], entry_id |-> entry.id])]

\* lines 207-300: one entry of the feed
ParseEntry(acc, entry) ==
    IF entry.kind = "meta" THEN acc
    ELSE LET counted == [acc EXCEPT !.entry_count = @ + 1]
             paper_id == PaperId[entry.id]
         IN  IF entry.kind = "noid" THEN counted
             ELSE IF paper_id \in Keys(acc.full_content) THEN counted
             ELSE [counted EXCEPT !.full_content =
                       Append(@, [id |-> paper_id, entry_id |-> entry.id])]

RECURSIVE ParseEntries(_, _, _)
ParseEntries(acc, page, i) ==
    IF i > Len(page) THEN acc
    ELSE ParseEntries(ParseEntry(acc, page[i]), page, i + 1)

\* list(full_content.items())[-entry_count:]
LastItems(fc, n) ==
    IF n >= Len(fc) THEN fc ELSE SubSeq(fc, Len(fc) - n + 1, Len(fc))

RECURSIVE FilterNew(_, _)
\* lines 330-335: the items whose canonical ID is not in the Known-ID Set
FilterNew(items, K) ==
    IF items = <<>> THEN <<>>
    ELSE LET rest == FilterNew(Tail(items), K)
             it == Head(items)
         IN  IF Canon[it.id] \notin K
             THEN <<[key |-> it.id, hasId |-> TRUE, id |-> it.id, entry_id |-> it.entry_id]>> \o rest
             ELSE rest

\* the ways an append of a batch can fail
IoChoices(batch) ==
    {NoFail, [open |-> TRUE, at |-> 0]}
        \cup {[open |-> FALSE, at |-> k] : k \in 1..Len(batch)}

\* the loop condition with <= for <
LoopCond_Le(st, target, empties) == st <= target /\ empties < max_empty_pages

\* the loop condition of line 130
LoopCond(st, target, empties) == st < target /\ empties < max_empty_pages

\* what happens when the retries of line 158 are exhausted on a 503:
\* the raise of line 174 lands in the handler of lines 349-354
After503Exhausted == "loop"

\* continue for break
AfterHttpError_Continue == "loop"

\* lines 355-356: any other HTTP error ends the loop
AfterHttpError == "ret"

(***************************************************************************)
(* State.                                                                  *)
(***************************************************************************)
VARIABLES
    args,               \* the command line: mode, skip_no_date_files, max_results
    store,              \* ./metadata: file name -> file
    pc,                 \* where the run is
    category,           \* index of the topic being fetched (main's loop)
    target_results, start, empty_page_count, retry_count,
    full_content,       \* the call's accumulated records, in insertion order
    existing_data,      \* the Known-ID Set of the call
    new_papers_count,
    all_category_data, total_new_papers, report_data,
    report,             \* the report file
    wait_time,          \* the last sleep before a retry
    aborted,            \* the call met a non-503 HTTP error
    io_failed,          \* an append of the call raised
    erred,              \* topics whose fetch ended on an unrecoverable error
    sv,                 \* SaveSpec: one call of save_metadata_files
    pv,                 \* ParseSpec: the entry loop over the pages of one call
    nv,                 \* NormSpec: one call of normalize_arxiv_id
    lv,                 \* LoadSpec: one call of load_existing_metadata_files
    cv,                 \* ConcSpec: two invocations on one store directory
    bv,                 \* BatchSpec: one call of batch_convert
    xv,                 \* CsvSpec: one call of json_to_csv
    gv,                 \* GcsSpec: one call of convert_to_gcs_url
    dv                  \* CleanSpec: clean_and_deduplicate_json run twice

fetch_vars == <<target_results, start, empty_page_count, retry_count, full_content,
                existing_data, new_papers_count>>
main_vars == <<all_category_data, total_new_papers, report_data, report>>
hist_vars == <<wait_time, aborted, io_failed, erred>>
rest_vars == <<cv, bv, xv, gv, dv>>
aux == <<sv, pv, nv, lv, rest_vars>>
vars == <<args, store, pc, category, fetch_vars, main_vars, hist_vars, aux>>

MaxResultsChoices == {100, 150}
Modes == {"category", "date_range"}

File(lines, nl) == [exists |-> TRUE, lines |-> lines, nl |-> nl]
\* stores in which every canonical ID occurs at most once
InitStores ==
    { [undated |-> NoFile, past |-> NoFile, cur |-> NoFile],
      [undated |-> NoFile, past |-> File(<<JsonLine(Url2, Url2), BadLine>>, TRUE),
       cur |-> File(<<>>, TRUE)],
      [undated |-> File(<<JsonLine(Id1, Id1)>>, TRUE), past |-> NoFile,
       cur |-> File(<<JsonLine(Id2, Url2)>>, FALSE)] }

NoSave == [state |-> "idle", batch |-> <<>>, K |-> {}, file |-> NoFile, io |-> NoFail,
           res |-> [file |-> NoFile, K |-> {}, new_entries |-> 0, raised |-> FALSE]]
NoReport == [written |-> FALSE, new_papers_count |-> 0]
NoParse == [state |-> "idle", pages |-> <<>>, K |-> {}, i |-> 0, full_content |-> <<>>,
            file |-> NoFile]
NoNorm == [state |-> "idle", s |-> <<>>, N |-> 1, out |-> <<>>, again |-> <<>>,
           versioned |-> <<>>]
Invocations == {1, 2}
NoConc == [state |-> "idle", serialized |-> FALSE, file |-> NoFile,
           inv |-> [i \in Invocations |-> [pc |-> "start", K |-> {}, appended |-> {}]]]
NoBatch == [state |-> "idle", urls |-> <<>>, max_workers |-> 0, results |-> <<>>,
            started |-> 0, running |-> {}, finished |-> {}, yielded |-> {}]
NoCsv == [state |-> "idle", lines |-> <<>>, records_per_file |-> 1, line_num |-> 0,
          file_counter |-> 0, record_counter |-> 0, files |-> <<>>]
NoGcs == [state |-> "idle", url |-> [valid |-> FALSE], category |-> "", raised |-> FALSE,
          out |-> [dir |-> "", yymm |-> <<>>, paper_id |-> <<>>, version |-> <<>>]]
NoClean == [state |-> "idle", original |-> <<>>, file |-> <<>>, runs |-> 0,
            raised |-> FALSE, after_first |-> <<>>]
RestIdle == cv = NoConc /\ bv = NoBatch /\ xv = NoCsv /\ gv = NoGcs /\ dv = NoClean
NoLoad == [state |-> "idle", store |-> [n \in LoadNames |-> NoFile], listing |-> <<>>,
           skip_no_date_files |-> FALSE, ids |-> {}, opened |-> {}]
FunIdle == sv = NoSave /\ pv = NoParse /\ nv = NoNorm /\ lv = NoLoad

Init ==
    /\ args \in [mode : Modes, skip_no_date_files : BOOLEAN, max_results : MaxResultsChoices]
    /\ store \in InitStores
    /\ pc = "main"
    /\ category = 1
    /\ target_results = 0 /\ start = 0 /\ empty_page_count = 0 /\ retry_count = 0
    /\ full_content = <<>> /\ existing_data = {} /\ new_papers_count = 0
    /\ all_category_data = {} /\ total_new_papers = 0
    /\ report_data = [successful_categories |-> <<>>, failed_categories |-> <<>>,
                      new_papers_count |-> 0]
    /\ report = NoReport
    /\ wait_time = 0 /\ aborted = FALSE /\ io_failed = FALSE
    /\ erred = {}
    /\ sv = NoSave /\ pv = NoParse /\ nv = NoNorm /\ lv = NoLoad /\ RestIdle

(***************************************************************************)
(* main calls get_daily_papers: lines 727 and 783, then lines 69-128.      *)
(***************************************************************************)
\* lines 83-98 and 125: the target of the call
TargetOf(mode, max_results) ==
    IF mode = "date_range" /\ max_results = default_max_results THEN Inf ELSE max_results

\* line 134: the max_results parameter of a page request
BatchMaxResults(st, target) ==
    IF target # Inf
    THEN (IF batch_size < target - st THEN batch_size ELSE target - st)
    ELSE batch_size

Fetching == IF args.mode = "category" THEN category <= NumTopics ELSE category = 1

CallFetch ==
    /\ pc = "main" /\ Fetching
    /\ target_results' = TargetOf(args.mode, args.max_results)
    /\ existing_data' = load_existing_metadata_files(store, FALSE)
    /\ start' = 0 /\ empty_page_count' = 0 /\ retry_count' = 0
    /\ full_content' = <<>> /\ new_papers_count' = 0
    /\ wait_time' = 0 /\ aborted' = FALSE /\ io_failed' = FALSE
    /\ pc' = "loop"
    /\ UNCHANGED <<args, store, category, main_vars, erred, aux>>

\* os.listdir of line 394 raises: the call raises (lines 366-368); main
\* records the topic as failed (lines 791-794), or dies in date-range mode
CallFetchRaises ==
    /\ pc = "main" /\ Fetching
    /\ IF args.mode = "category"
       THEN /\ report_data' = [report_data EXCEPT !.failed_categories = Append(@, category)]
            /\ pc' = "main"
       ELSE /\ UNCHANGED report_data
            /\ pc' = "crashed"
    /\ category' = category + 1
    /\ UNCHANGED <<args, store, fetch_vars, all_category_data, total_new_papers, report,
                   hist_vars, aux>>

(***************************************************************************)
(* The paging loop, lines 130-359.                                         *)
(***************************************************************************)
\* line 160: a request goes out, first try of an iteration or a retry
IssueRequest ==
    /\ \/ pc = "loop" /\ LoopCond(start, target_results, empty_page_count)
       \/ pc = "retry"
    /\ retry_count' = IF pc = "loop" THEN 0 ELSE retry_count
    \* the sleep of line 170 or 182 is over
    /\ wait_time' = 0
    /\ pc' = "await"
    /\ UNCHANGED <<args, store, category, target_results, start, empty_page_count,
                   full_content, existing_data, new_papers_count, main_vars,
                   aborted, io_failed, erred, aux>>

\* line 130 is false: the call returns
LoopExit ==
    /\ pc = "loop" /\ ~LoopCond(start, target_results, empty_page_count)
    /\ pc' = "ret"
    /\ UNCHANGED <<args, store, category, fetch_vars, main_vars, hist_vars, aux>>

\* lines 163-174: HTTP 503
Resp503 ==
    /\ pc = "await"
    /\ retry_count' = retry_count + 1
    /\ wait_time' = 10 * retry_count'
    /\ pc' = IF retry_count' < max_retries THEN "retry" ELSE After503Exhausted
    /\ erred' = IF pc' = "ret" THEN erred \cup {category} ELSE erred
    /\ UNCHANGED <<args, store, category, target_results, start, empty_page_count,
                   full_content, existing_data, new_papers_count, main_vars,
                   aborted, io_failed, aux>>

\* lines 175-176 and 355-356: any other HTTP error
RespHttpError ==
    /\ pc = "await"
    /\ aborted' = TRUE
    /\ erred' = erred \cup {category}
    /\ pc' = AfterHttpError
    /\ UNCHANGED <<args, store, category, fetch_vars, main_vars, wait_time,
                   io_failed, aux>>

\* a variant that waits the same time before every retry
NonHttpWait_Flat(k) == 5
\* line 180: the wait before retry k
NonHttpWait(k) == 5 * k

\* lines 177-186 and 357-359: an error that is no HTTPError
RespNonHttp ==
    /\ pc = "await"
    /\ retry_count' = retry_count + 1
    /\ IF retry_count' < max_retries
       THEN /\ wait_time' = NonHttpWait(retry_count')
            /\ pc' = "retry"
            /\ UNCHANGED erred
       ELSE /\ UNCHANGED wait_time
            /\ pc' = "ret"
            /\ erred' = erred \cup {category}
    /\ UNCHANGED <<args, store, category, target_results, start, empty_page_count,
                   full_content, existing_data, new_papers_count, main_vars,
                   aborted, io_failed, aux>>

\* lines 160-162: the API answers with a body; the retry loop is left
RespOk ==
    /\ pc = "await"
    \* the locals of the retry loop are set anew at lines 154-156
    /\ retry_count' = 0 /\ wait_time' = 0
    /\ pc' = "page"
    /\ UNCHANGED <<args, store, category, target_results, start, empty_page_count,
                   full_content, existing_data, new_papers_count, main_vars,
                   aborted, io_failed, erred, aux>>

\* line 193 raises on a body that is no XML: lines 357-359
ParseFails ==
    /\ pc = "page"
    /\ erred' = erred \cup {category}
    /\ pc' = "ret"
    /\ UNCHANGED <<args, store, category, fetch_vars, main_vars, wait_time,
                   aborted, io_failed, aux>>

\* lines 193-347: the feed is parsed, its entries are counted and
\* accumulated, and the new records are handed to the Writer
ProcessPage(content) ==
    LET parsed == ParseEntries([full_content |-> full_content, entry_count |-> 0],
                               content, 1)
        entry_count == parsed.entry_count
        batch_data == FilterNew(LastItems(parsed.full_content, entry_count),
                                existing_data)
    IN     /\ full_content' = parsed.full_content
           /\ IF entry_count = 0
              THEN /\ empty_page_count' = empty_page_count + 1
                   /\ IF empty_page_count' >= max_empty_pages
                      THEN /\ pc' = "ret"
                           /\ UNCHANGED start
                      ELSE /\ pc' = "loop"
                           /\ start' = start + batch_size
                   /\ UNCHANGED <<store, existing_data, new_papers_count, io_failed>>
              ELSE /\ empty_page_count' = 0
                   /\ start' = start + batch_size
                   /\ pc' = "loop"
                   /\ IF batch_data = <<>>
                      THEN UNCHANGED <<store, existing_data, new_papers_count, io_failed>>
                      ELSE \E io \in IoChoices(batch_data) :
                             LET res == save_metadata_files(batch_data, existing_data,
                                                            store.cur, io)
                             IN  /\ store' = [store EXCEPT !.cur = res.file]
                                 /\ existing_data' = res.K
                                 /\ new_papers_count' =
                                        IF res.raised THEN new_papers_count
                                        ELSE new_papers_count + Len(batch_data)
                                 /\ io_failed' = (io_failed \/ res.raised)

HandlePage ==
    /\ pc = "page"
    /\ \E pg \in PagesAt(start) : ProcessPage(pg)
    /\ UNCHANGED <<args, category, target_results, retry_count, main_vars, wait_time,
                   aborted, erred, aux>>

(***************************************************************************)
(* main after the call.                                                    *)
(***************************************************************************)
\* the locals of get_daily_papers end with the call
CallEnds ==
    /\ target_results' = 0 /\ start' = 0 /\ empty_page_count' = 0 /\ retry_count' = 0
    /\ full_content' = <<>> /\ existing_data' = {} /\ new_papers_count' = 0
    /\ wait_time' = 0 /\ aborted' = FALSE /\ io_failed' = FALSE

\* lines 785-790: the call returned to the topic loop
ReturnToTopics ==
    /\ pc = "ret" /\ args.mode = "category"
    /\ all_category_data' = all_category_data \cup Keys(full_content)
    /\ report_data' = [report_data EXCEPT !.successful_categories = Append(@, category)]
    /\ total_new_papers' = total_new_papers + new_papers_count
    /\ category' = category + 1
    /\ pc' = "main"
    /\ CallEnds
    /\ UNCHANGED <<args, store, report, erred, aux>>

AsBatch(fc) ==
    [i \in 1..Len(fc) |->
        [key |-> fc[i].id, hasId |-> TRUE, id |-> fc[i].id, entry_id |-> fc[i].entry_id]]

\* lines 732-745: date-range mode saves everything once more against a set
\* loaded with the skip flag, then report_data, which this branch never
\* assigned, is subscripted: the run dies there if the save did not raise
DateRangeSave ==
    /\ pc = "ret" /\ args.mode = "date_range"
    /\ \E io \in IoChoices(AsBatch(full_content)) :
         LET res == save_metadata_files(AsBatch(full_content),
                        load_existing_metadata_files(store, args.skip_no_date_files),
                        store.cur, io)
         IN  store' = [store EXCEPT !.cur = res.file]
    /\ category' = category + 1
    /\ pc' = "crashed"
    /\ CallEnds
    /\ UNCHANGED <<args, main_vars, erred, aux>>

\* lines 796-824 and generate_report: the report of the run; a failure to
\* write it is logged and swallowed (lines 659-668)
Finish ==
    /\ pc = "main" /\ args.mode = "category" /\ category > NumTopics
    /\ LET n == IF all_category_data = {} THEN 0 ELSE total_new_papers
       IN  /\ report_data' = [report_data EXCEPT !.new_papers_count = n]
           /\ \E written \in BOOLEAN :
                report' = IF written THEN [written |-> TRUE, new_papers_count |-> n]
                          ELSE report
    /\ pc' = "done"
    /\ UNCHANGED <<args, store, category, fetch_vars, all_category_data, total_new_papers,
                   hist_vars, aux>>

\* os.listdir raises in the Loader call of line 545 or 809
FinishRaises ==
    /\ pc = "main" /\ args.mode = "category" /\ category > NumTopics
    /\ pc' = "crashed"
    /\ UNCHANGED <<args, store, category, fetch_vars, main_vars, hist_vars, aux>>

Next ==
    \/ CallFetch \/ CallFetchRaises
    \/ IssueRequest \/ LoopExit
    \/ Resp503 \/ RespHttpError \/ RespNonHttp \/ RespOk
    \/ ParseFails \/ HandlePage
    \/ ReturnToTopics \/ DateRangeSave \/ Finish \/ FinishRaises

Spec == Init /\ [][Next]_vars

\* the run is one sequential process: it takes its next step whenever it has one
FairSpec == Spec /\ WF_vars(Next)

(***************************************************************************)
(* SaveSpec: save_metadata_files on every batch, Known-ID Set and file.    *)
(***************************************************************************)
CanonIds == {Id1, Id2}
SaveItems ==
    { [key |-> Id1, hasId |-> TRUE, id |-> Id1, entry_id |-> Id1],
      [key |-> Key9, hasId |-> TRUE, id |-> Bare1v2, entry_id |-> Key9],
      [key |-> Id2, hasId |-> FALSE, id |-> <<>>, entry_id |-> Id2],
      [key |-> Url2, hasId |-> TRUE, id |-> Url2, entry_id |-> Url2] }
\* a dict holds a key once
Batches ==
    {b \in SeqsUpTo(SaveItems, MaxBatch) :
        \A i, j \in 1..Len(b) : b[i].key = b[j].key => i = j}
SaveFiles ==
    { NoFile, File(<<>>, TRUE), File(<<JsonLine(Id1, Id1)>>, TRUE),
      File(<<JsonLine(Id1, Id1)>>, FALSE) }

SaveInit ==
    /\ args = [mode |-> "category", skip_no_date_files |-> FALSE, max_results |-> 100]
    /\ store = [undated |-> NoFile, past |-> NoFile, cur |-> NoFile]
    /\ pc = "save"
    /\ category = 1
    /\ target_results = 0 /\ start = 0 /\ empty_page_count = 0 /\ retry_count = 0
    /\ full_content = <<>> /\ existing_data = {} /\ new_papers_count = 0
    /\ all_category_data = {} /\ total_new_papers = 0
    /\ report_data = [successful_categories |-> <<>>, failed_categories |-> <<>>,
                      new_papers_count |-> 0]
    /\ report = NoReport
    /\ wait_time = 0 /\ aborted = FALSE /\ io_failed = FALSE
    /\ erred = {}
    /\ pv = NoParse /\ nv = NoNorm /\ lv = NoLoad /\ RestIdle
    /\ \E b \in Batches, K \in SUBSET CanonIds, f \in SaveFiles :
         \E io \in IoChoices(b) :
            sv = [state |-> "called", batch |-> b, K |-> K, file |-> f, io |-> io,
                  res |-> NoSave.res]

SaveCall ==
    /\ sv.state = "called"
    /\ LET res == save_metadata_files(sv.batch, sv.K, sv.file, sv.io)
       IN  sv' = [sv EXCEPT !.state = IF res.raised THEN "raised" ELSE "returned",
                            !.res = res]
    /\ UNCHANGED <<args, store, pc, category, fetch_vars, main_vars, hist_vars, pv, nv, lv,
                   rest_vars>>

SaveNext == SaveCall
SaveSpec == SaveInit /\ [][SaveNext]_vars

\* the pipeline at rest, while one of the function specifications runs
PipelineIdle(at) ==
    /\ args = [mode |-> "category", skip_no_date_files |-> FALSE, max_results |-> 100]
    /\ store = [undated |-> NoFile, past |-> NoFile, cur |-> NoFile]
    /\ pc = at
    /\ category = 1
    /\ target_results = 0 /\ start = 0 /\ empty_page_count = 0 /\ retry_count = 0
    /\ full_content = <<>> /\ existing_data = {} /\ new_papers_count = 0
    /\ all_category_data = {} /\ total_new_papers = 0
    /\ report_data = [successful_categories |-> <<>>, failed_categories |-> <<>>,
                      new_papers_count |-> 0]
    /\ report = NoReport
    /\ wait_time = 0 /\ aborted = FALSE /\ io_failed = FALSE
    /\ erred = {}
pipeline_vars == <<args, store, pc, category, fetch_vars, main_vars, hist_vars>>

(***************************************************************************)
(* ParseSpec: the entry loop and the hand-over to the Writer (lines        *)
(* 196-344) over two consecutive pages of one call, every append           *)
(* succeeding, the store file absent at the start.                         *)
(***************************************************************************)
ParseInit ==
    /\ PipelineIdle("parse")
    /\ sv = NoSave /\ nv = NoNorm /\ lv = NoLoad /\ RestIdle
    /\ \E p1 \in Pages, p2 \in Pages, K \in SUBSET CanonIds :
         pv = [state |-> "called", pages |-> <<p1, p2>>, K |-> K, i |-> 0,
               full_content |-> <<>>, file |-> NoFile]

ParsePage ==
    /\ pv.state = "called" /\ pv.i < Len(pv.pages)
    /\ LET parsed == ParseEntries([full_content |-> pv.full_content, entry_count |-> 0],
                                  pv.pages[pv.i + 1], 1)
           batch_data == FilterNew(LastItems(parsed.full_content, parsed.entry_count),
                                   pv.K)
           res == save_metadata_files(batch_data, pv.K, pv.file, NoFail)
       IN  pv' = [pv EXCEPT !.i = @ + 1,
                            !.full_content = parsed.full_content,
                            !.K = IF batch_data = <<>> THEN @ ELSE res.K,
                            !.file = IF batch_data = <<>> THEN @ ELSE res.file]
    /\ UNCHANGED <<pipeline_vars, sv, nv, lv, rest_vars>>

ParseNext == ParsePage
ParseSpec == ParseInit /\ [][ParseNext]_vars

(***************************************************************************)
(* NormSpec: normalize_arxiv_id on every string built from at most         *)
(* MaxPieces pieces, on its own result, and on the string followed by a    *)
(* version suffix.                                                         *)
(***************************************************************************)
Pieces == {<<"1">>, <<"a">>, S_v, S_slash, S_abs, S_domain}
RECURSIVE Concat(_)
Concat(ps) == IF ps = <<>> THEN <<>> ELSE Head(ps) \o Concat(Tail(ps))
NormStrings == {Concat(ps) : ps \in SeqsUpTo(Pieces, MaxPieces)}

\* str(n) of a positive integer
RECURSIVE Str(_)
Str(n) ==
    LET digit == <<"0", "1", "2", "3", "4", "5", "6", "7", "8", "9">>[(n % 10) + 1]
    IN  IF n < 10 THEN <<digit>> ELSE Append(Str(n \div 10), digit)

NormInit ==
    /\ PipelineIdle("norm")
    /\ sv = NoSave /\ pv = NoParse /\ lv = NoLoad /\ RestIdle
    /\ \E s \in NormStrings, N \in 1..MaxVersion :
         nv = [NoNorm EXCEPT !.state = "called", !.s = s, !.N = N]

NormCall ==
    /\ nv.state = "called"
    /\ nv' = [nv EXCEPT !.state = "returned",
                        !.out = normalize_arxiv_id(nv.s),
                        !.again = normalize_arxiv_id(normalize_arxiv_id(nv.s)),
                        !.versioned = normalize_arxiv_id(nv.s \o S_v \o Str(nv.N))]
    /\ UNCHANGED <<pipeline_vars, sv, pv, lv, rest_vars>>

NormNext == NormCall
NormSpec == NormInit /\ [][NormNext]_vars

(***************************************************************************)
(* LoadSpec: load_existing_metadata_files on a directory of four files,    *)
(* in every order os.listdir may give them, with and without the skip      *)
(* flag.                                                                   *)
(***************************************************************************)
LoadLines ==
    { JsonLine(Id1, Id1), JsonLine(Url2, Url2), JsonLine(<<>>, <<>>), NoIdLine(Id1),
      BadLine, NonObjLine, BlankLine }
RichFiles == {NoFile} \cup {File(ls, TRUE) : ls \in SeqsUpTo(LoadLines, MaxLines)}
LoadStores ==
    { [undated |-> u, past |-> p, cur |-> c, future |-> f] :
        u \in {NoFile, File(<<JsonLine(Key9, Key9)>>, TRUE)},
        p \in {NoFile, File(<<JsonLine(Id2, Id2)>>, TRUE)},
        c \in RichFiles,
        f \in {NoFile, File(<<JsonLine(Url1, Url1)>>, TRUE)} }
Listings ==
    {q \in [1..Cardinality(LoadNames) -> LoadNames] :
        \A i, j \in DOMAIN q : q[i] = q[j] => i = j}

LoadInit ==
    /\ PipelineIdle("load")
    /\ sv = NoSave /\ pv = NoParse /\ nv = NoNorm /\ RestIdle
    /\ \E st \in LoadStores, q \in Listings, flag \in BOOLEAN :
         lv = [NoLoad EXCEPT !.state = "called", !.store = st, !.listing = q,
                             !.skip_no_date_files = flag]

LoadCall ==
    /\ lv.state = "called"
    /\ LET res == LoadListing(lv.store, lv.listing, lv.skip_no_date_files,
                              [ids |-> {}, opened |-> {}])
       IN  lv' = [lv EXCEPT !.state = "returned", !.ids = res.ids, !.opened = res.opened]
    /\ UNCHANGED <<pipeline_vars, sv, pv, nv, rest_vars>>

LoadNext == LoadCall
LoadSpec == LoadInit /\ [][LoadNext]_vars

(***************************************************************************)
(* arxiv_converter.py.  A PDF link is what the patterns of                 *)
(* extract_paper_id find in it: the paper ID, the version (empty when      *)
(* there is none) and the category segment of an old-style link (empty     *)
(* when there is none); an invalid link matches no pattern.  The GCS path  *)
(* is its directory under arxiv-dataset/arxiv/, its yymm directory, and    *)
(* the ID and version of the file name.                                    *)
(***************************************************************************)
Digits == <<"0", "1", "2", "3", "4", "5", "6", "7", "8", "9">>
IsDigit(c) == \E i \in DOMAIN Digits : Digits[i] = c
\* int() of a string of digits
RECURSIVE IntOf(_)
IntOf(s) ==
    IF s = <<>> THEN 0
    ELSE 10 * IntOf(SubSeq(s, 1, Len(s) - 1))
            + (CHOOSE i \in DOMAIN Digits : Digits[i] = s[Len(s)]) - 1

PdfLink(cat, paper_id, version) ==
    [valid |-> TRUE, category |-> cat, paper_id |-> paper_id, version |-> version]
InvalidLink == [valid |-> FALSE, category |-> "", paper_id |-> <<>>, version |-> <<>>]

\* str.lower() on the category names of the model
Lower == [c \in {"acc-phys", "hep-th", "cs.LG"} |->
             IF c = "cs.LG" THEN "cs.lg" ELSE c]

\* parse_year_month
parse_year_month(paper_id) ==
    LET S_dot == <<".">>
        head == IF Contains(paper_id, S_dot)
                THEN SubSeq(paper_id, 1, Find(paper_id, S_dot) - 1)
                ELSE paper_id
        year_month == SubSeq(head, 1, IF Len(head) < 4 THEN Len(head) ELSE 4)
    IN  IF Len(year_month) = 4 /\ \A i \in 1..4 : IsDigit(year_month[i])
        THEN year_month
        ELSE <<"0", "0", "0", "0">>

\* line 243: April 2007 (0704) and later
UsesArxivDir(year, month) == year > 7 \/ (year = 7 /\ month >= 4)

\* convert_to_gcs_url, with the category get_category found for the paper
convert_to_gcs_url(pdf_url, cat) ==
    LET paper_id == pdf_url.paper_id
        year_month == parse_year_month(paper_id)
        version == IF pdf_url.version = <<>> THEN <<"v", "1">> ELSE pdf_url.version
        year == IntOf(SubSeq(year_month, 1, 2))
        month == IntOf(SubSeq(year_month, 3, 4))
    IN  [dir |-> IF UsesArxivDir(year, month) THEN "arxiv" ELSE Lower[cat],
         yymm |-> year_month, paper_id |-> paper_id, version |-> version]

(***************************************************************************)
(* GcsSpec: convert_to_gcs_url on new-style and old-style links of every   *)
(* period of GcsPeriods.                                                   *)
(***************************************************************************)
GcsYears == {<<"9", "1">>, <<"9", "5">>, <<"9", "9">>, <<"0", "0">>, <<"0", "6">>,
             <<"0", "7">>, <<"0", "8">>, <<"2", "4">>, <<"2", "5">>}
GcsMonths == {<<"0", "1">>, <<"0", "3">>, <<"0", "4">>, <<"1", "2">>}
GcsPeriods == {y \o m : y \in GcsYears, m \in GcsMonths}
\* new-style IDs exist from 0704 on, old-style ones up to 0703
IsNewStyle(yymm) ==
    LET year == IntOf(SubSeq(yymm, 1, 2))
        month == IntOf(SubSeq(yymm, 3, 4))
    IN  year < 91 /\ (year > 7 \/ (year = 7 /\ month >= 4))
GcsLinks ==
    {IF IsNewStyle(p) THEN PdfLink("", p \o <<".", "0", "0", "0", "1">>, v)
     ELSE PdfLink("acc-phys", p \o <<"0", "0", "1">>, v) :
        p \in GcsPeriods, v \in {<<>>, <<"v", "2">>}}

GcsInit ==
    /\ PipelineIdle("gcs")
    /\ FunIdle /\ cv = NoConc /\ bv = NoBatch /\ xv = NoCsv /\ dv = NoClean
    /\ \E u \in GcsLinks, c \in {"acc-phys", "cs.LG"} :
         gv = [NoGcs EXCEPT !.state = "called", !.url = u,
                            !.category = IF u.category # "" THEN u.category ELSE c]

GcsCall ==
    /\ gv.state = "called"
    /\ gv' = [gv EXCEPT !.state = "returned",
                        !.out = convert_to_gcs_url(gv.url, gv.category)]
    /\ UNCHANGED <<pipeline_vars, sv, pv, nv, lv, cv, bv, xv, dv>>

GcsNext == GcsCall
GcsSpec == GcsInit /\ [][GcsNext]_vars

(***************************************************************************)
(* BatchSpec: batch_convert on a list of links.  Up to SequentialLimit     *)
(* links are converted in input order by the caller; a longer list is      *)
(* submitted to a pool of max_workers threads, which takes the tasks in    *)
(* submission order, and as_completed hands each finished future to the    *)
(* collecting loop once, in any order in which they finish.  log_message   *)
(* writes conversion.log and leaves the results alone.                     *)
(***************************************************************************)
SequentialLimit == 5
ThreadCap == 20
MaxUrls == 6

NoOut == [dir |-> "", yymm |-> <<>>, paper_id |-> <<>>, version |-> <<>>]
\* get_category as far as the path needs it: the category segment of an
\* old-style link, the default for a link that has none
CategoryOf(url) == IF url.category # "" THEN url.category ELSE "cs.LG"

\* process_url: (url, gcs_url, success, error)
process_url(url) ==
    IF url.valid
    THEN <<url, convert_to_gcs_url(url, CategoryOf(url)), TRUE, "">>
    ELSE <<url, NoOut, FALSE, "invalid link">>

\* a variant in which a failed conversion restarts the result list
results_append_FailureResets(results, result) ==
    IF result[3] THEN Append(results, result) ELSE <<result>>
\* results.append(result)
results_append(results, result) == Append(results, result)

\* lines 324-325: the thread count when the caller gives none (0)
WorkersFor(max_workers, total) ==
    IF max_workers # 0 THEN max_workers
    ELSE LET half == IF total \div 2 > 1 THEN total \div 2 ELSE 1
         IN  IF half < ThreadCap THEN half ELSE ThreadCap

RECURSIVE Sequential(_, _)
\* lines 331-337: the loop over the links in input order
Sequential(urls, results) ==
    IF urls = <<>> THEN results
    ELSE Sequential(Tail(urls), results_append(results, process_url(Head(urls))))

BatchLinks ==
    {PdfLink("", <<"2", "5", "0", "8", ".", "0", "0", "0", "1">>, <<>>), InvalidLink}
BatchLists == UNION {[1..n -> BatchLinks] : n \in 0..MaxUrls}

BatchInit ==
    /\ PipelineIdle("batch")
    /\ FunIdle /\ cv = NoConc /\ xv = NoCsv /\ gv = NoGcs /\ dv = NoClean
    /\ \E urls \in BatchLists, w \in {0, 2} :
         bv = [NoBatch EXCEPT !.state = "called", !.urls = urls, !.max_workers = w]

BatchCall ==
    /\ bv.state = "called"
    /\ bv' = IF Len(bv.urls) <= SequentialLimit
             THEN [bv EXCEPT !.state = "returned",
                             !.max_workers = WorkersFor(@, Len(bv.urls)),
                             !.results = Sequential(bv.urls, <<>>)]
             ELSE [bv EXCEPT !.state = "pool",
                             !.max_workers = WorkersFor(@, Len(bv.urls))]
    /\ UNCHANGED <<pipeline_vars, sv, pv, nv, lv, cv, xv, gv, dv>>

\* a free thread takes the next submitted task
WorkerStart ==
    /\ bv.state = "pool"
    /\ bv.started < Len(bv.urls)
    /\ Cardinality(bv.running) < bv.max_workers
    /\ bv' = [bv EXCEPT !.started = @ + 1, !.running = @ \cup {bv.started + 1}]
    /\ UNCHANGED <<pipeline_vars, sv, pv, nv, lv, cv, xv, gv, dv>>

\* process_url returns in its thread: the future is done
WorkerFinish(i) ==
    /\ bv.state = "pool"
    /\ i \in bv.running
    /\ bv' = [bv EXCEPT !.running = @ \ {i}, !.finished = @ \cup {i}]
    /\ UNCHANGED <<pipeline_vars, sv, pv, nv, lv, cv, xv, gv, dv>>

\* lines 345-348: as_completed yields a done future, its result is appended
Yield(i) ==
    /\ bv.state = "pool"
    /\ i \in bv.finished
    /\ bv' = [bv EXCEPT !.finished = @ \ {i}, !.yielded = @ \cup {i},
                        !.results = results_append(@, process_url(bv.urls[i]))]
    /\ UNCHANGED <<pipeline_vars, sv, pv, nv, lv, cv, xv, gv, dv>>

\* lines 358-359: every future has been yielded
BatchReturn ==
    /\ bv.state = "pool"
    /\ bv.yielded = 1..Len(bv.urls)
    /\ bv' = [bv EXCEPT !.state = "returned"]
    /\ UNCHANGED <<pipeline_vars, sv, pv, nv, lv, cv, xv, gv, dv>>

BatchNext ==
    \/ BatchCall
    \/ WorkerStart
    \/ \E i \in 1..MaxUrls : WorkerFinish(i)
    \/ \E i \in 1..MaxUrls : Yield(i)
    \/ BatchReturn
BatchSpec == BatchInit /\ [][BatchNext]_vars

(***************************************************************************)
(* CsvSpec: json_to_csv on a file of lines.  A line is blank, unparsable,  *)
(* a record, or a record whose processing raises (an authors_parsed entry  *)
(* with fewer than three parts, line 88).  A CSV file is the rows under    *)
(* its header; a row is the number of the input line it came from.         *)
(***************************************************************************)
MaxCsvLines == 4
CsvLineKinds == {"blank", "unparsable", "record", "raises"}
CsvInputs == UNION {[1..n -> CsvLineKinds] : n \in 0..MaxCsvLines}

\* lines 65-75: a new file, with its header, when the count of written
\* records is a multiple of records_per_file
Rotate(x) ==
    IF x.record_counter % x.records_per_file = 0
    THEN [x EXCEPT !.file_counter = @ + 1, !.files = Append(@, <<>>)]
    ELSE x

\* lines 101-102: the row goes into the open file
WriteRow(x, row) ==
    [x EXCEPT !.files[x.file_counter] = Append(@, row), !.record_counter = @ + 1]

\* lines 57-112: one line of the input
ProcessLine(x, kind, line_num) ==
    CASE kind = "blank" -> x
      [] kind = "unparsable" -> x
      [] kind = "raises" -> Rotate(x)
      [] kind = "record" -> WriteRow(Rotate(x), line_num)

CsvInit ==
    /\ PipelineIdle("csv")
    /\ FunIdle /\ cv = NoConc /\ bv = NoBatch /\ gv = NoGcs /\ dv = NoClean
    /\ \E lines \in CsvInputs, n \in {1, 2} :
         xv = [NoCsv EXCEPT !.state = "reading", !.lines = lines, !.records_per_file = n]

CsvLine ==
    /\ xv.state = "reading"
    /\ xv.line_num < Len(xv.lines)
    /\ xv' = [ProcessLine(xv, xv.lines[xv.line_num + 1], xv.line_num + 1)
                 EXCEPT !.line_num = xv.line_num + 1]
    /\ UNCHANGED <<pipeline_vars, sv, pv, nv, lv, cv, bv, gv, dv>>

\* lines 114-118: the input is read through, the last file is closed
CsvReturn ==
    /\ xv.state = "reading"
    /\ xv.line_num = Len(xv.lines)
    /\ xv' = [xv EXCEPT !.state = "returned"]
    /\ UNCHANGED <<pipeline_vars, sv, pv, nv, lv, cv, bv, gv, dv>>

CsvNext == CsvLine \/ CsvReturn
CsvSpec == CsvInit /\ [][CsvNext]_vars

(***************************************************************************)
(* CleanSpec: clean_and_deduplicate_json, run twice on the store file of   *)
(* the period.  A line is blank, unparsable, JSON that is no object, an    *)
(* object without id, or a record with an id, a body and a spelling: as    *)
(* json.dumps writes it ("dumped") or with other spacing ("spaced").       *)
(***************************************************************************)
MaxCleanLines == 3
CleanIds == {"a", "b"}
CleanLine(kind, id, body, spelling) ==
    [kind |-> kind, id |-> id, body |-> body, spelling |-> spelling]
CleanLines ==
    {CleanLine("record", id, body, sp) :
        id \in CleanIds, body \in {1, 2}, sp \in {"dumped", "spaced"}}
    \cup {CleanLine(k, "", 0, "spaced") : k \in {"blank", "unparsable", "non_object", "no_id"}}
CleanFiles == UNION {[1..n -> CleanLines] : n \in 0..MaxCleanLines}

\* line 78: json.dumps of the parsed record
Dumped(line) == [line EXCEPT !.spelling = "dumped"]

RECURSIVE ReadRecords(_, _, _)
\* lines 44-73: the reading loop; record.get of line 56 raises on JSON that
\* is no object, and nothing catches it
ReadRecords(lines, seen, unique_records) ==
    IF lines = <<>> THEN [raised |-> FALSE, unique_records |-> unique_records]
    ELSE LET line == Head(lines)
         IN  CASE line.kind = "blank" -> ReadRecords(Tail(lines), seen, unique_records)
               [] line.kind = "unparsable" -> ReadRecords(Tail(lines), seen, unique_records)
               [] line.kind = "non_object" ->
                     [raised |-> TRUE, unique_records |-> unique_records]
               [] line.kind = "no_id" -> ReadRecords(Tail(lines), seen, unique_records)
               [] line.kind = "record" ->
                     IF line.id \in seen
                     THEN ReadRecords(Tail(lines), seen, unique_records)
                     ELSE ReadRecords(Tail(lines), seen \cup {line.id},
                                      Append(unique_records, line))

\* clean_and_deduplicate_json: the file after the call, and whether it raised
clean_and_deduplicate_json(file) ==
    LET read == ReadRecords(file, {}, <<>>)
    IN  IF read.raised THEN [raised |-> TRUE, file |-> file]
        ELSE [raised |-> FALSE,
              file |-> [i \in DOMAIN read.unique_records |-> Dumped(read.unique_records[i])]]

CleanInit ==
    /\ PipelineIdle("clean")
    /\ FunIdle /\ cv = NoConc /\ bv = NoBatch /\ xv = NoCsv /\ gv = NoGcs
    /\ \E f \in CleanFiles : dv = [NoClean EXCEPT !.state = "ready", !.original = f, !.file = f]

CleanRun ==
    /\ dv.state = "ready"
    /\ dv.runs < 2
    /\ LET res == clean_and_deduplicate_json(dv.file)
       IN  dv' = [dv EXCEPT !.file = res.file, !.runs = @ + 1,
                            !.raised = (@ \/ res.raised),
                            !.after_first = IF dv.runs = 0 THEN res.file ELSE @]
    /\ UNCHANGED <<pipeline_vars, sv, pv, nv, lv, cv, bv, xv, gv>>

CleanNext == CleanRun
CleanSpec == CleanInit /\ [][CleanNext]_vars

(***************************************************************************)
(* ConcSpec: two invocations of the pipeline on one store directory.  Each *)
(* loads its Known-ID Set (line 116), then handles one page: parse, filter *)
(* against its own set, append (lines 196-344).  Serialized, an invocation *)
(* starts only when the other has not started or has ended.                *)
(***************************************************************************)
ConcInit ==
    /\ PipelineIdle("conc")
    /\ FunIdle /\ bv = NoBatch /\ xv = NoCsv /\ gv = NoGcs /\ dv = NoClean
    /\ \E ser \in BOOLEAN, f \in SaveFiles :
         cv = [NoConc EXCEPT !.state = "running", !.serialized = ser, !.file = f]

InvLoad(i) ==
    /\ cv.state = "running" /\ cv.inv[i].pc = "start"
    /\ cv.serialized => \A j \in Invocations \ {i} : cv.inv[j].pc \in {"start", "done"}
    /\ cv' = [cv EXCEPT !.inv[i].pc = "fetching",
                        !.inv[i].K = load_existing_metadata_files(
                            [undated |-> NoFile, past |-> NoFile, cur |-> cv.file], FALSE)]
    /\ UNCHANGED <<pipeline_vars, sv, pv, nv, lv, bv, xv, gv, dv>>

InvPage(i) ==
    /\ cv.state = "running" /\ cv.inv[i].pc = "fetching"
    /\ \E pg \in Pages :
         LET parsed == ParseEntries([full_content |-> <<>>, entry_count |-> 0], pg, 1)
             batch_data == FilterNew(LastItems(parsed.full_content, parsed.entry_count),
                                     cv.inv[i].K)
             res == save_metadata_files(batch_data, cv.inv[i].K, cv.file, NoFail)
         IN  cv' = IF batch_data = <<>>
                   THEN [cv EXCEPT !.inv[i].pc = "done"]
                   ELSE [cv EXCEPT !.inv[i].pc = "done",
                                   !.inv[i].K = res.K,
                                   !.inv[i].appended = res.K \ cv.inv[i].K,
                                   !.file = res.file]
    /\ UNCHANGED <<pipeline_vars, sv, pv, nv, lv, bv, xv, gv, dv>>

ConcNext == \E i \in Invocations : InvLoad(i) \/ InvPage(i)
ConcSpec == ConcInit /\ [][ConcNext]_vars

(***************************************************************************)
(* Properties.                                                             *)
(***************************************************************************)
\* number of record lines of file f whose canonical ID is id
LinesWith(f, id) ==
    Cardinality({i \in 1..Len(f.lines) :
                    f.lines[i].kind = "json" /\ normalize_arxiv_id(f.lines[i].id) = id})
RECURSIVE SumOver(_, _)
SumOver(names, id) ==
    IF names = {} THEN 0
    ELSE LET n == CHOOSE x \in names : TRUE
         IN  LinesWith(store[n], id) + SumOver(names \ {n}, id)
StoredIds == UNION {FileIds(store[n]) : n \in FileNames}

\* C1: in a single run that starts from a store without duplicates, every
\* reachable state has at most one line per canonical ID across the union
\* of all store files.
C1_UniqueIdsInStore == \A id \in StoredIds : SumOver(FileNames, id) <= 1

\* the canonical ID of the i-th record of a batch, from its own `id` field
\* (the key of the dict when the record has none)
OwnCanon(b, i) == normalize_arxiv_id(IF b[i].hasId THEN b[i].id ELSE b[i].key)
\* the i-th record's canonical ID is absent from the Known-ID Set when the
\* record is processed: not in K and not the ID of an earlier record
AbsentWhenProcessed(b, K, i) ==
    /\ OwnCanon(b, i) \notin K
    /\ \A j \in 1..(i - 1) : OwnCanon(b, j) # OwnCanon(b, i)
AppendedIdx(b, K) == {i \in 1..Len(b) : AbsentWhenProcessed(b, K, i)}
AppendedLines(f0, f1) == SubSeq(f1.lines, Len(f0.lines) + 1, Len(f1.lines))

\* C2: save_metadata_files appends a record iff its canonical ID, recomputed
\* from its own id, is absent from the Known-ID Set when it is processed; it
\* returns (lines appended, size of K afterwards, K afterwards), and K
\* afterwards is K before united with the canonical IDs of the batch.
C2_SaveAppendsExactlyNew ==
    sv.state = "returned" =>
        LET b == sv.batch
            idx == AppendedIdx(b, sv.K)
            new == AppendedLines(sv.file, sv.res.file)
            K1 == sv.K \cup {OwnCanon(b, i) : i \in 1..Len(b)}
        IN  /\ Len(sv.res.file.lines) = Len(sv.file.lines) + Cardinality(idx)
            /\ SubSeq(sv.res.file.lines, 1, Len(sv.file.lines)) = sv.file.lines
            /\ \A i \in idx :
                  new[Cardinality({j \in idx : j <= i})] = LineOf(b[i])
            /\ sv.res.K = K1
            /\ sv.K \subseteq sv.res.K
            /\ SaveReturn(sv.res) = <<Cardinality(idx), Cardinality(K1), K1>>

\* C2 witness: a returned call whose batch holds two records with one
\* canonical ID that K lacked: the first is appended, the second skipped
C2_Witness ==
    /\ sv.state = "returned"
    /\ Len(sv.batch) = 2
    /\ OwnCanon(sv.batch, 1) = OwnCanon(sv.batch, 2)
    /\ OwnCanon(sv.batch, 1) \notin sv.K
    /\ sv.res.new_entries = 1

AllKnown(b, K) == \A i \in 1..Len(b) : OwnCanon(b, i) \in K

\* C3 as stated: a batch whose canonical IDs are all known yields an
\* appended count of 0 and leaves the bytes of the store file unchanged,
\* whatever the file was.
C3_AllKnownLeavesBytes ==
    (sv.state = "returned" /\ AllKnown(sv.batch, sv.K)) =>
        /\ sv.res.new_entries = 0
        /\ Bytes(sv.res.file) = Bytes(sv.file)

\* C3 amended: such a batch yields an appended count of 0 and leaves the
\* lines of the store file unchanged; its bytes are unchanged when the file
\* is absent, empty or ends with a newline, and a non-empty file that does
\* not end with a newline gains exactly that newline; the file exists
\* afterwards.
C3_AllKnownLeavesLines ==
    (sv.state = "returned" /\ AllKnown(sv.batch, sv.K)) =>
        /\ sv.res.new_entries = 0
        /\ sv.res.file.lines = sv.file.lines
        /\ sv.res.file.exists
        /\ IF sv.file.lines # <<>> /\ ~sv.file.nl
           THEN Bytes(sv.res.file) = Bytes(sv.file) \o <<"NL">>
           ELSE Bytes(sv.res.file) = Bytes(sv.file)

\* C3 witness: a returned call with a non-empty all-known batch on a file
\* that did not end with a newline
C3_Witness ==
    /\ sv.state = "returned"
    /\ sv.batch # <<>>
    /\ AllKnown(sv.batch, sv.K)
    /\ sv.file.lines # <<>> /\ ~sv.file.nl
    /\ sv.res.file.nl

\* C4: exhausting the retries of a page ends the fetch call; the same offset
\* is not requested again.
C4_ExhaustionEndsFetch == retry_count >= max_retries => pc = "ret"

\* C5: a page request is issued only while start < target_results and fewer
\* than 3 consecutive empty pages have been seen.
C5_RequestUnderLoopCondition ==
    pc = "await" => (start < target_results /\ empty_page_count < 3)

\* C5 witness: a request in flight after two consecutive empty pages
C5_Witness == pc = "await" /\ empty_page_count = 2 /\ start > 0

InSeq(x, q) == \E i \in 1..Len(q) : q[i] = x

\* C6: a topic whose fetch ended on an unrecoverable error is listed among
\* the failed topics of the run summary, not among the successful ones.
C6_ErredTopicIsFailed ==
    \A t \in erred :
        t < category =>
            /\ InSeq(t, report_data.failed_categories)
            /\ ~InSeq(t, report_data.successful_categories)

\* C7: after an HTTP failure other than 503 the fetch call issues no further
\* request: it is not retrying, not waiting for a response and not back at
\* the head of the loop.
C7_HttpErrorAborts == aborted => pc = "ret"

\* C7 witness: the failure hit a later page of a call that had records
C7_Witness == aborted /\ start > 0 /\ full_content # <<>>

\* C8: in a multi-topic run every topic of the list is eventually attempted,
\* whatever errors the earlier topics met.
C8_AllTopicsAttempted == <>(args.mode = "category" => category > NumTopics)

\* C9: after an append to the store file failed during a fetch, no further
\* page is requested.
C9_IoFailureStopsRequests == io_failed => pc # "await"

\* C10: when a page request is issued, every record accumulated by the call
\* has its canonical ID in the Known-ID Set and a line in the store.
C10_AccumulatedAreStored ==
    pc = "await" =>
        \A i \in 1..Len(full_content) :
            /\ normalize_arxiv_id(full_content[i].id) \in existing_data
            /\ normalize_arxiv_id(full_content[i].id) \in StoredIds

\* the <id> texts of the paper entries of the pages processed so far, in
\* page order, then entry order
RECURSIVE PaperEntryIds(_, _)
PaperEntryIds(pages, n) ==
    IF n = 0 THEN <<>>
    ELSE LET papers == SelectSeq(pages[n], LAMBDA e : e.kind = "paper")
         IN  PaperEntryIds(pages, n - 1) \o [k \in 1..Len(papers) |-> papers[k].id]
\* the first of the entry ids E that normalizes to c
FirstEntry(E, c) ==
    E[CHOOSE k \in 1..Len(E) :
        /\ normalize_arxiv_id(E[k]) = c
        /\ \A j \in 1..(k - 1) : normalize_arxiv_id(E[j]) # c]

C12_CountEqualsAppended ==
    (pc = "ret" /\ category = 1 /\ ~store.undated.exists /\ ~store.past.exists)
        => new_papers_count = Len(store.cur.lines)

\* the store the run reads holds every record the API returns, and its
\* files end as the Writer leaves them, with a newline
ApiIds == {normalize_arxiv_id(e) : e \in EntryIds}
Held == ApiIds \subseteq load_existing_metadata_files(store, args.skip_no_date_files)
AsWritten == \A n \in FileNames : store[n].nl

IsCanonical(s) ==
    /\ ~Contains(s, S_abs) /\ ~Contains(s, S_domain) /\ ~Contains(s, S_v)

\* C14: an identifier already in canonical form is returned unchanged, and
\* normalizing it twice gives what normalizing it once gives
C14_CanonicalIsFixed ==
    (nv.state = "returned" /\ IsCanonical(nv.s)) =>
        /\ nv.out = nv.s
        /\ nv.again = nv.out

\* an old-style identifier with a path separator
C14_Witness ==
    /\ nv.state = "returned"
    /\ nv.s = <<"a", "/", "1">>
    /\ nv.out = nv.s /\ nv.again = nv.s

\* C15: whatever the identifier (bare, URL with '/abs/', URL with the
\* domain), following it with "v" and a positive integer does not change
\* what it normalizes to
C15_VersionSuffixIgnored ==
    nv.state = "returned" => nv.versioned = nv.out

\* a URL with the domain and without '/abs/', and a two-digit version
C15_Witness ==
    /\ nv.state = "returned"
    /\ nv.s = S_domain \o S_slash \o <<"1">>
    /\ nv.N = 10
    /\ nv.out = <<"1">> /\ nv.versioned = <<"1">>

\* canonical IDs of the records of a file: its lines that are JSON objects
\* with an `id`
RecordIds(f) ==
    {normalize_arxiv_id(f.lines[i].id) :
        i \in {j \in 1..Len(f.lines) : f.lines[j].kind = "json"}}

\* C16: the Loader's result is the union of the canonical IDs of the
\* records of all the files it scanned, whatever the order of the directory
\* listing and of the lines inside a file
C16_ResultIsUnion ==
    lv.state = "returned" =>
        lv.ids = UNION {RecordIds(lv.store[n]) : n \in lv.opened}

\* C17: a malformed line does not abort the scan: the result holds the
\* canonical ID of every well-formed record line of every scanned file,
\* whatever precedes the line
C17_MalformedSkipped ==
    lv.state = "returned" =>
        \A n \in lv.opened :
            \A i \in 1..Len(lv.store[n].lines) :
                LET l == lv.store[n].lines[i]
                IN  (l.kind = "json" /\ l.id # <<>>) => normalize_arxiv_id(l.id) \in lv.ids

\* the files the Loader is to scan: no period and the skip flag off, or a
\* period not after the current one
ShouldScan(name, skip_no_date_files) ==
    \/ name = "undated" /\ ~skip_no_date_files
    \/ name # "undated" /\ Periods[name] <= Periods.cur

\* C18: the Loader scans a file exactly when its name has no period and the
\* skip flag is off, or its period is not after the current one; a file of
\* a later period, or an undated file under the flag, contributes no ID
C18_ScannedIff ==
    lv.state = "returned" =>
        /\ \A n \in LoadNames :
              lv.store[n].exists => (n \in lv.opened <=> ShouldScan(n, lv.skip_no_date_files))
        /\ \A id \in lv.ids :
              \E n \in LoadNames :
                  /\ lv.store[n].exists /\ ShouldScan(n, lv.skip_no_date_files)
                  /\ id \in RecordIds(lv.store[n])

\* all four files exist and the flag is on: the files of last month and of
\* this month are scanned, the IDs of the other two stay out
C18_Witness ==
    /\ lv.state = "returned" /\ lv.skip_no_date_files
    /\ \A n \in LoadNames : lv.store[n].exists
    /\ lv.opened = {"past", "cur"}
    /\ Id2 \in lv.ids /\ Key9 \notin lv.ids /\ Id1 \notin lv.ids

\* C19: run with the skip flag, the Known-ID Set the fetch consults when it
\* decides what to write holds no ID that occurs only in an undated file
C19_FlagHidesUndatedIds ==
    args.skip_no_date_files =>
        \A id \in RecordIds(store.undated) \ (RecordIds(store.past) \cup RecordIds(store.cur)) :
            id \notin existing_data

\* the records of batch b that are new when processed and come before the
\* k-th such record
NewBefore(b, K, k) ==
    LET idx == AppendedIdx(b, K)
    IN  {i \in idx : Cardinality({j \in idx : j < i}) < k - 1}

\* C20: when the write of the k-th new record of a batch fails, the call
\* raises, none of the records from the k-th on is written, and the lines
\* of the first k-1 new records stay in the file after everything it held,
\* with their IDs in the Known-ID Set
C20_PartialBatchKept ==
    LET b == sv.batch
        k == sv.io.at
        kept == NewBefore(b, sv.K, k)
        new == AppendedLines(sv.file, sv.res.file)
    IN  (sv.state # "called" /\ ~sv.io.open /\ k >= 1
            /\ Cardinality(AppendedIdx(b, sv.K)) >= k) =>
            /\ sv.state = "raised" /\ sv.res.raised
            /\ Len(sv.res.file.lines) = Len(sv.file.lines) + (k - 1)
            /\ SubSeq(sv.res.file.lines, 1, Len(sv.file.lines)) = sv.file.lines
            /\ \A i \in kept : LineOf(b[i]) = new[Cardinality({j \in kept : j <= i})]
            /\ sv.res.K = sv.K \cup {OwnCanon(b, i) : i \in kept}

\* the second new record of a batch failed: the first one's line and ID stay
C20_Witness ==
    /\ sv.state = "raised" /\ sv.io.at = 2
    /\ Len(sv.batch) = 2
    /\ sv.file.lines # <<>>
    /\ Len(sv.res.file.lines) = Len(sv.file.lines) + 1
    /\ OwnCanon(sv.batch, 1) \in sv.res.K \ sv.K
    /\ OwnCanon(sv.batch, 2) \notin sv.res.K

\* p is a prefix of q
IsPrefix(p, q) == Len(p) <= Len(q) /\ SubSeq(q, 1, Len(p)) = p

\* C21: the pipeline only appends: at every step what a store file held,
\* lines and bytes, is a prefix of what it holds afterwards, and no file
\* other than the current period's changes at all
C21_AppendOnly ==
    [][\A n \in FileNames :
          /\ IsPrefix(store[n].lines, store'[n].lines)
          /\ IsPrefix(Bytes(store[n]), Bytes(store'[n]))
          /\ n # "cur" => store'[n] = store[n]]_vars

\* the call appended to the current period's file next to last month's
\* file, which holds what it held at the start
C21_Witness ==
    /\ pc = "ret"
    /\ store.past = File(<<JsonLine(Url2, Url2), BadLine>>, TRUE)
    /\ Len(store.cur.lines) >= 1
    /\ new_papers_count >= 1

\* C22: serialized, two invocations leave at most one line per canonical ID
\* in the store file; interleaved they do not (the witness)
C22_SerializedKeepsUnique ==
    (cv.state = "running" /\ cv.serialized) =>
        /\ \A id \in CanonIds : LinesWith(cv.file, id) <= 1
        /\ cv.inv[1].appended \cap cv.inv[2].appended = {}

\* interleaved, both invocations took their decision against their own
\* set and both appended a record of the same canonical ID
C22_Witness ==
    /\ cv.state = "running" /\ ~cv.serialized
    /\ \A i \in Invocations : cv.inv[i].pc = "done"
    /\ \E id \in cv.inv[1].appended \cap cv.inv[2].appended : LinesWith(cv.file, id) = 2

\* the ID's period is April 2007 or later: yy 91..99 are the years
\* 1991-1999, yy 00..90 the years 2000-2090
FromApril2007(paper_id) ==
    LET yymm == SubSeq(paper_id, 1, 4)
        yy == IntOf(SubSeq(yymm, 1, 2))
        mm == IntOf(SubSeq(yymm, 3, 4))
        year == IF yy >= 91 THEN 1900 + yy ELSE 2000 + yy
    IN  year * 12 + mm >= 2007 * 12 + 4

\* C29: a paper is placed under arxiv/arxiv/pdf/<yymm>/ exactly when its ID
\* dates it to April 2007 or later, and under arxiv/<category>/pdf/<yymm>/
\* exactly when it dates it earlier, the IDs of 1991-1999 included
C29_DirByDate ==
    gv.state = "returned" =>
        /\ gv.out.dir = "arxiv" <=> FromApril2007(gv.url.paper_id)
        /\ gv.out.dir = Lower[gv.category] <=> ~FromApril2007(gv.url.paper_id)
        /\ gv.out.yymm = SubSeq(gv.url.paper_id, 1, 4)


\* C23: batch_convert returns one result tuple per input link, whatever the
\* list and the order in which the conversions complete; each tuple pairs a
\* link with that link's own outcome (the GCS path of a valid link, a
\* failure for an invalid one), and a failure leaves the other results in.
OwnOutcome(t) ==
    LET url == t[1]
    IN  /\ t[3] <=> url.valid
        /\ t[3] => t[2] = convert_to_gcs_url(url, CategoryOf(url)) /\ t[4] = ""
        /\ ~t[3] => t[2] = NoOut /\ t[4] # ""
ResultsFor(seq, u) == Cardinality({j \in DOMAIN seq : seq[j][1] = u})
CountIn(seq, x) == Cardinality({i \in DOMAIN seq : seq[i] = x})
C23_OneResultPerUrl ==
    bv.state = "returned" =>
        /\ Len(bv.results) = Len(bv.urls)
        /\ \A j \in DOMAIN bv.results : OwnOutcome(bv.results[j])
        /\ \A u \in BatchLinks : ResultsFor(bv.results, u) = CountIn(bv.urls, u)
        /\ Len(bv.urls) <= SequentialLimit =>
             \A j \in DOMAIN bv.urls : bv.results[j][1] = bv.urls[j]
\* the pool has returned results in an order other than the input order, a
\* failure among them
C23_Witness ==
    /\ bv.state = "returned"
    /\ Len(bv.urls) > SequentialLimit
    /\ \E j \in DOMAIN bv.urls : bv.results[j][1] # bv.urls[j]
    /\ \E j, k \in DOMAIN bv.results : bv.results[j][3] /\ ~bv.results[k][3] /\ k < j


\* C24: a page without a real entry raises the empty-page streak by one and
\* leaves start where it was; a page with a real entry resets the streak and
\* advances start by the page size.  A handled page is a step from "page"
\* that changes the streak or start (a body that does not parse changes
\* neither).
C24_StartAfterPage ==
    [][(pc = "page" /\ (empty_page_count' # empty_page_count \/ start' # start)) =>
          \/ empty_page_count' = empty_page_count + 1 /\ start' = start
          \/ empty_page_count' = 0 /\ start' = start + batch_size]_vars

\* C25: a run whose fetch phase is complete goes on to write the report of
\* the period; stated for date-range mode, where the fetch phase is the one
\* call of get_daily_papers.
C25_DateRangeReport ==
    (args.mode = "date_range" /\ pc = "ret") ~> report.written

\* C26: while a page request is out, it asks for at most 100 results, the
\* pages requested so far (those before start, and this one) add up to at
\* most the maximum the caller supplied, and the target is bounded.
C26_PagesWithinMax ==
    pc = "await" =>
        /\ BatchMaxResults(start, target_results) <= batch_size
        /\ start + BatchMaxResults(start, target_results) <= args.max_results
        /\ target_results # Inf

\* C27: an error that is no HTTP error counts one more failed attempt; below
\* max_retries the request is retried after 5 s times the count, at
\* max_retries the call ends; a request is retried with fewer than
\* max_retries failures behind it, and a call that has ended issues no
\* request.
C27_NonHttpRetries ==
    [][/\ RespNonHttp =>
            /\ retry_count' = retry_count + 1
            /\ retry_count' < max_retries => pc' = "retry" /\ wait_time' = 5 * retry_count'
            /\ retry_count' >= max_retries => pc' = "ret"
       /\ pc' = "retry" => retry_count' \in 1..max_retries - 1
       /\ pc = "ret" => pc' \in {"main", "crashed"}]_vars
\* the retries of a page after the first are exhausted: the call has ended
C27_Witness ==
    /\ pc = "ret"
    /\ retry_count = max_retries
    /\ start = batch_size


\* C28: json_to_csv writes the records it could process, in input order,
\* into the numbered files; every file but the last holds records_per_file
\* rows, the last holds between 1 and records_per_file, and no file holds
\* the header alone.
RECURSIVE Flatten(_)
Flatten(fs) == IF fs = <<>> THEN <<>> ELSE Head(fs) \o Flatten(Tail(fs))
RECURSIVE RecordLines(_, _)
RecordLines(lines, n) ==
    IF n > Len(lines) THEN <<>>
    ELSE (IF lines[n] = "record" THEN <<n>> ELSE <<>>) \o RecordLines(lines, n + 1)
C28_CsvFiles ==
    xv.state = "returned" =>
        /\ Flatten(xv.files) = RecordLines(xv.lines, 1)
        /\ Len(xv.files) = xv.file_counter
        /\ \A k \in DOMAIN xv.files :
             /\ Len(xv.files[k]) >= 1
             /\ Len(xv.files[k]) <= xv.records_per_file
             /\ k < Len(xv.files) => Len(xv.files[k]) = xv.records_per_file


\* C30: after one run of clean_and_deduplicate_json the file holds one line
\* per id: the first line of each id in the original file, in the original
\* order, and no line that is unparsable or has no id; a second run leaves
\* these records as they are.
HasId(line) == line.kind = "record"
FirstOfId(lines, i) ==
    HasId(lines[i]) /\ \A j \in 1..i - 1 : ~(HasId(lines[j]) /\ lines[j].id = lines[i].id)
RECURSIVE FirstOccurrences(_, _)
FirstOccurrences(lines, i) ==
    IF i > Len(lines) THEN <<>>
    ELSE (IF FirstOfId(lines, i) THEN <<lines[i]>> ELSE <<>>)
            \o FirstOccurrences(lines, i + 1)
RecordOf(line) == [id |-> line.id, body |-> line.body]
RecordsOf(lines) == [i \in DOMAIN lines |-> RecordOf(lines[i])]
C30_CleanIdempotent ==
    /\ dv.runs >= 1 =>
         /\ \A i \in DOMAIN dv.after_first : HasId(dv.after_first[i])
         /\ \A i, j \in DOMAIN dv.after_first :
              dv.after_first[i].id = dv.after_first[j].id => i = j
         /\ RecordsOf(dv.after_first) = RecordsOf(FirstOccurrences(dv.original, 1))
    /\ dv.runs = 2 => RecordsOf(dv.file) = RecordsOf(dv.after_first)

====
